---- MODULE Spec2Model ----
(***************************************************************************)
(* A model of the amp.dev deployment tasks (src/gulpfile.js/deploy.js) and *)
(* of the code-preview template                                            *)
(* (src/frontend/templates/views/partials/code-preview/code-preview.j2).   *)
(*                                                                         *)
(* JavaScript strings that the code builds from parts or searches in are   *)
(* sequences of one-character strings, so that template literals are       *)
(* concatenations and String.prototype.includes is a substring search.     *)
(***************************************************************************)
EXTENDS Integers, Sequences, FiniteSets, TLC

VARIABLES
    argv,        \* mri(process.argv.slice(2)): the --tag and --project options
    env,         \* what the process reads at start: git version, Date.now()
    task,        \* the exported gulp task this process runs
    pc,          \* index in the task's series of the step running or next to run
    phase,       \* "ready" | "awaiting" | "done" | "failed"
    error,       \* why the task failed: "none" | "sh" | "deployed"
    started,     \* the step functions called so far, in call order
    completed,   \* the step functions whose promise has resolved, in order
    cmds,        \* the external commands spawned through sh(), in spawn order
    registry,    \* the container registry: image name -> published tags
    preview,     \* the preview descriptor the template is rendered with
    rendered,    \* whether the template has been rendered
    html,        \* the blocks the template emitted, in document order
    ampState,    \* the amp-state values of the widget
    dom          \* the client-side attributes the bindings and actions change

deployVars == <<argv, env, task, pc, phase, error, started, completed, cmds, registry>>
pageVars == <<preview, rendered, html, ampState, dom>>
vars == <<argv, env, task, pc, phase, error, started, completed, cmds, registry,
          preview, rendered, html, ampState, dom>>

-----------------------------------------------------------------------------
(* Bounds of the model *)

\* longest tag passed with --tag or already published
MaxTagLen == 2
\* most tags published for an image before the run
MaxPublished == 1
\* values the client's random() is drawn from
MaxRandom == 2
\* largest preview.index
MaxIndex == 2

Alphabet == {"a", "b"}

RECURSIVE StringsUpTo(_)
StringsUpTo(n) ==
    IF n = 0 THEN {<<>>}
    ELSE LET shorter == StringsUpTo(n - 1)
         IN  shorter \cup {Append(s, c) : s \in shorter, c \in Alphabet}

\* candidate and published tags: the non-empty strings over Alphabet
Tags == StringsUpTo(MaxTagLen) \ {<<>>}

\* a total order on the strings over Alphabet, to list each set of
\* published tags once
RECURSIVE Before(_, _)
Before(s, t) ==
    IF s = <<>> THEN t # <<>>
    ELSE IF t = <<>> THEN FALSE
    ELSE IF Head(s) = Head(t) THEN Before(Tail(s), Tail(t))
    ELSE Head(s) = "a"

RECURSIVE TagListsOfLen(_)
TagListsOfLen(n) ==
    IF n = 0 THEN {<<>>}
    ELSE {Append(l, t) : l \in TagListsOfLen(n - 1), t \in Tags}

IsIncreasing(l) == \A i \in 1..(Len(l) - 1) : Before(l[i], l[i + 1])

TagLists ==
    UNION {{l \in TagListsOfLen(n) : IsIncreasing(l)} : n \in 0..MaxPublished}

-----------------------------------------------------------------------------
(* String helpers *)

RECURSIVE Concat(_)
Concat(parts) == IF parts = <<>> THEN <<>> ELSE Head(parts) \o Concat(Tail(parts))

\* String.prototype.includes
includes(s, t) ==
    \E i \in 0..(Len(s) - Len(t)) : SubSeq(s, i + 1, i + Len(t)) = t

\* what a template literal prints for a property the object does not have
undefined == <<"u", "n", "d", "e", "f", "i", "n", "e", "d">>

\* obj.field as a template literal prints it
Get(obj, field) == IF field \in DOMAIN obj THEN obj[field] ELSE undefined

\* a commandline option: absent, or present with a (possibly empty) value
NoArg == [set |-> FALSE, value |-> <<>>]
Arg(v) == [set |-> TRUE, value |-> v]
\* JavaScript truthiness of an option value: undefined and '' are falsy
Truthy(a) == a.set /\ a.value # <<>>

-----------------------------------------------------------------------------
(* Configuration, deploy.js lines 25-97 *)

PREFIX == <<"a", "m", "p", "-", "d", "e", "v">>
PACKAGER_PREFIX == PREFIX \o <<"-", "p", "a", "c", "k", "a", "g", "e", "r">>

TIMESTAMP == env.now

TAG_default == Concat(<<env.gitVersion, <<"-">>, TIMESTAMP>>)
\* a TAG that does not read the commandline
TAG_ignoresOverride == TAG_default
TAG == IF Truthy(argv.tag) THEN argv.tag.value ELSE TAG_default

DefaultProject ==
    <<"a", "m", "p", "-", "d", "e", "v", "-", "2", "3", "0", "3", "1", "4">>
PROJECT_ID == IF Truthy(argv.project) THEN argv.project.value ELSE DefaultProject

DEFAULT_REGION == "us-east1"
DEFAULT_ZONE == "us-east1-c"

RegistryHost == <<"g", "c", "r", ".", "i", "o", "/">>

\* the repository's root directory, where gulp runs
ROOT == "."

config ==
    [prefix |-> PREFIX,
     tag |-> TAG,
     instance |->
        [groups |->
            <<[name |-> Concat(<<<<"i", "g", "-">>, PREFIX,
                                 <<"-", "e", "u", "r", "o", "p", "e">>>>),
               zone |-> "europe-west2-c"],
              [name |-> Concat(<<<<"i", "g", "-">>, PREFIX,
                                 <<"-", "z", "o", "n", "e", "2">>>>),
               zone |-> "us-east1-b"]>>,
         template |-> Concat(<<<<"i", "t", "-">>, PREFIX, <<"-">>, TAG>>),
         count |-> 2,
         machine |-> "n1-standard-2"],
     gcloud |->
        [project |-> PROJECT_ID,
         region |-> DEFAULT_REGION,
         zone |-> DEFAULT_ZONE],
     image |->
        [name |-> Concat(<<RegistryHost, PROJECT_ID, <<"/">>, PREFIX>>),
         current |-> Concat(<<RegistryHost, PROJECT_ID, <<"/">>, PREFIX,
                              <<":">>, TAG>>)],
     packager |->
        [opts |-> [workingDir |-> <<ROOT, "packager">>],
         prefix |-> PACKAGER_PREFIX,
         tag |-> TAG,
         instance |->
            [groups |->
                <<[name |-> Concat(<<<<"i", "g", "-">>, PACKAGER_PREFIX>>),
                   zone |-> "us-east1-b"]>>,
             template |-> Concat(<<<<"i", "t", "-">>, PACKAGER_PREFIX,
                                   <<"-">>, TAG>>),
             count |-> 1,
             machine |-> "n1-standard-1"],
         image |->
            [name |-> Concat(<<RegistryHost, PROJECT_ID, <<"/">>,
                               PACKAGER_PREFIX>>),
             current |-> Concat(<<RegistryHost, PROJECT_ID, <<"/">>,
                                  PACKAGER_PREFIX, <<":">>, TAG>>)]]]

-----------------------------------------------------------------------------
(* sh(), @lib/utils/sh.js: spawns the command at once and returns a promise *)
(* that resolves with the command's output when it exits 0 and rejects     *)
(* when it exits non-zero.                                                 *)

\* sh(command) without options
NoOpts == [o \in {} |-> FALSE]

\* a command line, by its parts; parts a command does not take are empty
CommandLine(kind, target) ==
    [kind |-> kind, target |-> target, image |-> <<>>, template |-> <<>>,
     zone |-> "", machine |-> "", flags |-> <<>>]

\* the child process sh() spawns for `line` on behalf of step function `step`
sh(line, opts, step) ==
    [line |-> line,
     cwd |-> IF "workingDir" \in DOMAIN opts THEN opts.workingDir ELSE <<ROOT>>,
     quiet |-> IF "quiet" \in DOMAIN opts THEN opts.quiet ELSE FALSE,
     step |-> step, st |-> "running", stdout |-> <<>>]

\* `gcloud container images list-tags` prints one line per published tag
\* (the digest and timestamp columns carry no tag text and are left out)
RECURSIVE ListTagsOutput(_)
ListTagsOutput(tags) ==
    IF tags = <<>> THEN <<>>
    ELSE Concat(<<Head(tags), <<"\n">>>>) \o ListTagsOutput(Tail(tags))

\* position of the last ":" of an image reference, 0 when there is none
LastColon(ref) ==
    LET at == {i \in 1..Len(ref) : ref[i] = ":"}
    IN  IF at = {} THEN 0 ELSE CHOOSE i \in at : \A j \in at : j <= i

RefName(ref) == SubSeq(ref, 1, LastColon(ref) - 1)
RefTag(ref) == SubSeq(ref, LastColon(ref) + 1, Len(ref))

\* `gcloud builds submit --tag ref` publishes the tag under the image name
Publish(reg, ref) ==
    LET name == RefName(ref)
        tag == RefTag(ref)
        old == IF name \in DOMAIN reg THEN reg[name] ELSE <<>>
    IN  IF \E i \in 1..Len(old) : old[i] = tag THEN reg
        ELSE [n \in DOMAIN reg \cup {name} |->
                IF n = name THEN Append(old, tag) ELSE reg[n]]

-----------------------------------------------------------------------------
(* The command each task function hands to sh() *)

verifyTagCommand == CommandLine("container images list-tags", config.image.name)

imageUploadCommand ==
    [CommandLine("builds submit", <<>>) EXCEPT !.image = config.image.current]

instanceTemplateCreateCommand ==
    [CommandLine("compute instance-templates create-with-container",
                 config.instance.template)
        EXCEPT !.image = config.image.current,
               !.machine = config.instance.machine,
               !.flags = <<"--tags http-server,https-server",
                           "--scopes default,datastore">>]

\* updateStartCommand with the default zone in place of the group's
updateStartCommand_defaultZone(group) ==
    [CommandLine("rolling-action start-update", group.name)
        EXCEPT !.template = config.instance.template,
               !.zone = config.gcloud.zone,
               !.flags = <<"--min-ready 4m", "--max-surge 1",
                           "--max-unavailable 1">>]
updateStartCommand(group) ==
    [CommandLine("rolling-action start-update", group.name)
        EXCEPT !.template = config.instance.template,
               !.zone = group.zone,
               !.flags = <<"--min-ready 4m", "--max-surge 1",
                           "--max-unavailable 1">>]

\* updateStartUpdates stopping after the first group
updateStartUpdates_firstOnly ==
    [i \in 1..1 |->
        sh(updateStartCommand(config.instance.groups[i]), NoOpts, "updateStart")]
\* Array.prototype.map over the groups: one sh() call per group, in order
updateStartUpdates ==
    [i \in 1..Len(config.instance.groups) |->
        sh(updateStartCommand(config.instance.groups[i]), NoOpts, "updateStart")]

updateStopCommand ==
    CommandLine("rolling-action stop-proactive-update",
                Get(config.instance, "group"))

packagerInstanceTemplateCreateCommand ==
    [CommandLine("compute instance-templates create-with-container",
                 config.packager.instance.template)
        EXCEPT !.image = config.packager.image.current,
               !.machine = config.packager.instance.machine]

packagerImageUploadCommand ==
    [CommandLine("builds submit", <<>>)
        EXCEPT !.image = config.packager.image.current]

packagerUpdateStartCommand(group) ==
    [CommandLine("rolling-action start-update", group.name)
        EXCEPT !.template = config.packager.instance.template,
               !.zone = group.zone,
               !.flags = <<"--min-ready 1m", "--max-surge 1",
                           "--max-unavailable 1">>]

packagerUpdateStartUpdates ==
    [i \in 1..Len(config.packager.instance.groups) |->
        sh(packagerUpdateStartCommand(config.packager.instance.groups[i]),
           config.packager.opts, "packagerUpdateStart")]

-----------------------------------------------------------------------------
(* The exported tasks, deploy.js lines 242-260 *)

\* deploy with the upload ahead of the verification
deploy_uploadFirst ==
    <<"imageUpload", "verifyTag", "instanceTemplateCreate", "updateStart">>
deploy == <<"verifyTag", "imageUpload", "instanceTemplateCreate", "updateStart">>

\* packagerDeploy with the template created ahead of the upload
packagerDeploy_reordered ==
    <<"packagerInstanceTemplateCreate", "packagerImageUpload",
      "packagerUpdateStart">>
packagerDeploy ==
    <<"packagerImageUpload", "packagerInstanceTemplateCreate",
      "packagerUpdateStart">>

TaskNames ==
    {"deploy", "packagerDeploy", "verifyTag", "updateStart",
     "packagerUpdateStart", "updateStop"}

\* the series of step functions behind an exported task
Steps(t) ==
    CASE t = "deploy" -> deploy
      [] t = "packagerDeploy" -> packagerDeploy
      [] OTHER -> <<t>>

\* the step function the series is at
Current == Steps(task)[pc]

\* the commands spawned by step function `step`
CmdsOf(step) == {i \in 1..Len(cmds) : cmds[i].step = step}

-----------------------------------------------------------------------------
(* One run of `gulp <task>` *)

TagOptions == {NoArg} \cup {Arg(v) : v \in Tags \cup {<<>>}}
ProjectOptions == {NoArg, Arg(<<"p">>)}
GitVersions == {<<"c">>}
Timestamps == {<<"1">>}

DeployInit ==
    /\ argv \in [tag : TagOptions, project : ProjectOptions]
    /\ env \in [gitVersion : GitVersions, now : Timestamps]
    /\ task \in TaskNames
    /\ pc = 1
    /\ phase = "ready"
    /\ error = "none"
    /\ started = <<>>
    /\ completed = <<>>
    /\ cmds = <<>>
    \* both images have been built from the same commits so far
    /\ \E published \in TagLists :
            registry = [n \in {config.image.name, config.packager.image.name}
                            |-> published]

\* the process before any task has been chosen to run (the template's runs)
DeployIdle ==
    /\ argv = [tag |-> NoArg, project |-> NoArg]
    /\ env = [gitVersion |-> <<"c">>, now |-> <<"1">>]
    /\ task = "verifyTag"
    /\ pc = 1
    /\ phase = "ready"
    /\ error = "none"
    /\ started = <<>>
    /\ completed = <<>>
    /\ cmds = <<>>
    /\ registry = [n \in {config.image.name, config.packager.image.name} |-> <<>>]

\* gulp calls the step function the series is at; the function spawns its
\* commands before it returns or first awaits
Call(step, spawned) ==
    /\ phase = "ready"
    /\ Current = step
    /\ started' = Append(started, step)
    /\ cmds' = cmds \o spawned
    /\ phase' = "awaiting"
    /\ UNCHANGED <<argv, env, task, pc, error, completed, registry, pageVars>>

\* series(): the step's promise resolved, the next step may be called
Resolve(step) ==
    /\ completed' = Append(completed, step)
    /\ IF pc = Len(Steps(task))
         THEN phase' = "done" /\ pc' = pc
         ELSE phase' = "ready" /\ pc' = pc + 1
    /\ error' = error

\* series(): the step's promise rejected, the task fails and calls no more steps
Reject(why) ==
    /\ phase' = "failed"
    /\ error' = why
    /\ UNCHANGED <<pc, completed>>

\* an external command ends, with exit code 0 or not
ShExit(i, code) ==
    /\ cmds[i].st = "running"
    /\ LET c == cmds[i]
           out == IF code = 0 /\ c.line.kind = "container images list-tags"
                    THEN ListTagsOutput(registry[c.line.target])
                    ELSE <<>>
       IN  /\ cmds' = [cmds EXCEPT ![i] =
                          [c EXCEPT !.st = IF code = 0 THEN "exit0" ELSE "exit1",
                                    !.stdout = out]]
           /\ registry' = IF code = 0 /\ c.line.kind = "builds submit"
                            THEN Publish(registry, c.line.image)
                            ELSE registry
    /\ UNCHANGED <<argv, env, task, pc, phase, error, started, completed, pageVars>>

\* Promise.all over the promises of the commands in S
PromiseAll(S) ==
    IF \E i \in S : cmds[i].st = "exit1" THEN "rejected"
    ELSE IF \A i \in S : cmds[i].st = "exit0" THEN "resolved"
    ELSE "pending"

(* deploy.js lines 102-109 *)
verifyTag ==
    Call("verifyTag", <<sh(verifyTagCommand, [quiet |-> TRUE], "verifyTag")>>)

\* verifyTagOutcome catching the rejection of the list-tags command
verifyTagOutcome_swallowsFailure(c) ==
    IF c.st = "exit0" /\ includes(c.stdout, config.tag) THEN "deployed" ELSE "ok"
\* how verifyTag ends once the awaited list-tags command `c` has ended
verifyTagOutcome(c) ==
    IF c.st = "exit1" THEN "sh"
    ELSE IF includes(c.stdout, config.tag) THEN "deployed"
    ELSE "ok"

verifyTagResume ==
    /\ phase = "awaiting"
    /\ Current = "verifyTag"
    /\ \E i \in CmdsOf("verifyTag") :
        /\ cmds[i].st # "running"
        /\ IF verifyTagOutcome(cmds[i]) = "ok"
             THEN Resolve("verifyTag")
             ELSE Reject(verifyTagOutcome(cmds[i]))
    /\ UNCHANGED <<argv, env, task, started, cmds, registry, pageVars>>

(* deploy.js lines 138-140 *)
imageUpload ==
    Call("imageUpload", <<sh(imageUploadCommand, NoOpts, "imageUpload")>>)

(* deploy.js lines 152-158 *)
instanceTemplateCreate ==
    Call("instanceTemplateCreate",
         <<sh(instanceTemplateCreateCommand, NoOpts, "instanceTemplateCreate")>>)

(* deploy.js lines 164-174 *)
updateStart == Call("updateStart", updateStartUpdates)

(* deploy.js lines 174-179 *)
updateStartResume ==
    /\ phase = "awaiting"
    /\ Current = "updateStart"
    /\ PromiseAll(CmdsOf("updateStart")) # "pending"
    /\ IF PromiseAll(CmdsOf("updateStart")) = "resolved"
         THEN Resolve("updateStart")
         ELSE Reject("sh")
    /\ UNCHANGED <<argv, env, task, started, cmds, registry, pageVars>>

(* deploy.js lines 201-204 *)
updateStop ==
    Call("updateStop", <<sh(updateStopCommand, NoOpts, "updateStop")>>)

(* deploy.js lines 209-214 *)
packagerInstanceTemplateCreate ==
    Call("packagerInstanceTemplateCreate",
         <<sh(packagerInstanceTemplateCreateCommand, config.packager.opts,
              "packagerInstanceTemplateCreate")>>)

(* deploy.js lines 219-221 *)
packagerImageUpload ==
    Call("packagerImageUpload",
         <<sh(packagerImageUploadCommand, config.packager.opts,
              "packagerImageUpload")>>)

(* deploy.js lines 227-237 *)
packagerUpdateStart == Call("packagerUpdateStart", packagerUpdateStartUpdates)

(* deploy.js lines 237-240 *)
packagerUpdateStartResume ==
    /\ phase = "awaiting"
    /\ Current = "packagerUpdateStart"
    /\ PromiseAll(CmdsOf("packagerUpdateStart")) # "pending"
    /\ IF PromiseAll(CmdsOf("packagerUpdateStart")) = "resolved"
         THEN Resolve("packagerUpdateStart")
         ELSE Reject("sh")
    /\ UNCHANGED <<argv, env, task, started, cmds, registry, pageVars>>

\* the step functions that return the promise of their one sh() call
ReturnsSh ==
    {"imageUpload", "instanceTemplateCreate", "updateStop",
     "packagerInstanceTemplateCreate", "packagerImageUpload"}

\* the promise such a step returned settles as its command ends
ShSettled ==
    /\ phase = "awaiting"
    /\ Current \in ReturnsSh
    /\ \E i \in CmdsOf(Current) :
        /\ cmds[i].st # "running"
        /\ IF cmds[i].st = "exit0" THEN Resolve(Current) ELSE Reject("sh")
    /\ UNCHANGED <<argv, env, task, started, cmds, registry, pageVars>>

-----------------------------------------------------------------------------
(* The code-preview template, code-preview.j2 *)

Modes == {"none", "inline", "top-frame", "side-frame"}
\* preview.orientation: "" is an orientation that is not set
Orientations == {"", "landscape", "portrait"}

Previews ==
    [mode : Modes, orientation : Orientations, index : 0..MaxIndex,
     url : {"/example"}, playground : BOOLEAN]

\* {% if cond %} block {% endif %}
If(cond, block) == IF cond THEN <<block>> ELSE <<>>

\* lines 1-3 and 135-137: the wrapping container
\* a container that does not depend on the mode
HasContainer_always(p) == TRUE
HasContainer(p) == p.mode # "none"

\* the blocks the template emits for descriptor p, in document order
Render(p) ==
    Concat(<<If(HasContainer(p), "<div class=ap-o-code-preview>"),
             If(p.mode = "inline", "inline-block"),
             If(p.mode = "top-frame", "top-frame-block"),
             <<"content">>,
             If(p.mode = "side-frame", "side-frame-block"),
             If(HasContainer(p), "</div>"),
             If(p.playground, "playground-link")>>)

\* line 12
initial_orientation(p) == IF p.orientation # "" THEN p.orientation ELSE "landscape"
\* line 13
is_landscape(p) == initial_orientation(p) = "landscape"

\* line 57: ap-o-code-preview-preview-iframe-{{ initial_orientation }}
IframeClass(o) == <<"ap-o-code-preview-preview-iframe-", o>>
Landscape == IframeClass("landscape")
Portrait == IframeClass("portrait")

\* the names of the widget's amp-state entries, keyed by preview.index
OrientationKey(p) == <<"orientation", p.index>>
ExampleKey(p) == <<"example", p.index>>

\* an <amp-iframe> address: the url, and the random() query tapReload adds
Url(u) == [url |-> u, query |-> 0]

Nothing == [k \in {} |-> FALSE]

\* lines 14-23 and 74-83: the <amp-state> elements as rendered
InitialAmpState(p) ==
    CASE p.mode = "top-frame" -> [k \in {OrientationKey(p)} |-> is_landscape(p)]
      [] p.mode = "side-frame" -> [k \in {OrientationKey(p)} |-> "portrait"]
      [] OTHER -> Nothing

InitialExample(p) ==
    IF p.mode \in {"top-frame", "side-frame"}
      THEN [k \in {ExampleKey(p)} |-> Url(p.url)]
      ELSE Nothing

\* lines 28, 38, 57-59: the attributes of the top-frame block as rendered
InitialDom(p) ==
    IF p.mode = "top-frame"
      THEN [iframeContainer |->
                {<<"ap-o-code-preview-preview-iframe", "">>,
                 IframeClass(initial_orientation(p))},
            hiddenToPortrait |-> ~is_landscape(p),
            hiddenToLandscape |-> is_landscape(p),
            src |-> Url(p.url)]
      ELSE [iframeContainer |-> {},
            hiddenToPortrait |-> TRUE,
            hiddenToLandscape |-> TRUE,
            src |-> Url(p.url)]

\* element.toggleClass(class=c)
\* a toggleClass that only ever adds the class
toggleClass_addOnly(classes, c) == classes \cup {c}
toggleClass(classes, c) ==
    IF c \in classes THEN classes \ {c} ELSE classes \cup {c}

PageInit ==
    /\ preview \in Previews
    /\ rendered = FALSE
    /\ html = <<>>
    /\ ampState = [orientation |-> Nothing, example |-> Nothing]
    /\ dom = InitialDom([preview EXCEPT !.mode = "none"])

\* no page is being rendered (the deployment's runs)
PageIdle ==
    /\ preview = [mode |-> "none", orientation |-> "", index |-> 0,
                  url |-> "/example", playground |-> FALSE]
    /\ rendered = FALSE
    /\ html = <<>>
    /\ ampState = [orientation |-> Nothing, example |-> Nothing]
    /\ dom = InitialDom(preview)

\* the page generator renders the template, the browser loads the result
RenderPage ==
    /\ ~rendered
    /\ rendered' = TRUE
    /\ html' = Render(preview)
    /\ ampState' = [orientation |-> InitialAmpState(preview),
                    example |-> InitialExample(preview)]
    /\ dom' = InitialDom(preview)
    /\ UNCHANGED <<preview, deployVars>>

\* amp-bind applies the [hidden] and [src] bindings of lines 28, 38 and 60
\* to the state st after a setState
Bound(d, st) ==
    [d EXCEPT !.hiddenToPortrait = ~st.orientation[OrientationKey(preview)],
              !.hiddenToLandscape = st.orientation[OrientationKey(preview)],
              !.src = st.example[ExampleKey(preview)]]

\* lines 28-37: tap on the button that turns the frame to portrait
tapToPortrait ==
    /\ rendered
    /\ preview.mode = "top-frame"
    /\ ~dom.hiddenToPortrait
    /\ LET st == [ampState EXCEPT !.orientation[OrientationKey(preview)] = FALSE]
           cl == toggleClass(toggleClass(dom.iframeContainer, Landscape), Portrait)
       IN  /\ ampState' = st
           /\ dom' = Bound([dom EXCEPT !.iframeContainer = cl], st)
    /\ UNCHANGED <<preview, rendered, html, deployVars>>

\* lines 38-47: tap on the button that turns the frame to landscape
tapToLandscape ==
    /\ rendered
    /\ preview.mode = "top-frame"
    /\ ~dom.hiddenToLandscape
    /\ LET st == [ampState EXCEPT !.orientation[OrientationKey(preview)] = TRUE]
           cl == toggleClass(toggleClass(dom.iframeContainer, Portrait), Landscape)
       IN  /\ ampState' = st
           /\ dom' = Bound([dom EXCEPT !.iframeContainer = cl], st)
    /\ UNCHANGED <<preview, rendered, html, deployVars>>

\* lines 49-54: tap on the reload button
tapReload ==
    /\ rendered
    /\ preview.mode = "top-frame"
    /\ \E r \in 1..MaxRandom :
        LET st == [ampState EXCEPT !.example[ExampleKey(preview)] =
                                        [url |-> preview.url, query |-> r]]
        IN  /\ ampState' = st
            /\ dom' = Bound(dom, st)
    /\ UNCHANGED <<preview, rendered, html, deployVars>>

-----------------------------------------------------------------------------
(* Specifications *)

Init == DeployInit /\ PageIdle

Next ==
    \/ verifyTag
    \/ verifyTagResume
    \/ imageUpload
    \/ instanceTemplateCreate
    \/ updateStart
    \/ updateStartResume
    \/ updateStop
    \/ packagerImageUpload
    \/ packagerInstanceTemplateCreate
    \/ packagerUpdateStart
    \/ packagerUpdateStartResume
    \/ ShSettled
    \/ \E i \in 1..Len(cmds), code \in {0, 1} : ShExit(i, code)

\* one run of a gulp task, from any commandline and registry content
Spec == Init /\ [][Next]_vars

\* one run of `gulp updateStart` or `gulp packagerUpdateStart`
UpdateInit ==
    /\ DeployInit
    /\ PageIdle
    /\ task \in {"updateStart", "packagerUpdateStart"}
    /\ \A n \in DOMAIN registry : registry[n] = <<>>

UpdateNext ==
    \/ updateStart
    \/ updateStartResume
    \/ packagerUpdateStart
    \/ packagerUpdateStartResume
    \/ \E i \in 1..Len(cmds), code \in {0, 1} : ShExit(i, code)

\* every spawned command ends: gcloud is an external process that exits
UpdateFairSpec ==
    /\ UpdateInit
    /\ [][UpdateNext]_vars
    /\ WF_vars(\E i \in 1..Len(cmds), code \in {0, 1} : ShExit(i, code))

TemplateInit == PageInit /\ DeployIdle

TemplateNext ==
    \/ RenderPage
    \/ tapToPortrait
    \/ tapToLandscape
    \/ tapReload

\* one rendering of the template and the taps on the rendered widget
TemplateSpec == TemplateInit /\ [][TemplateNext]_vars

-----------------------------------------------------------------------------
(* Properties *)

Range(seq) == {seq[i] : i \in 1..Len(seq)}
IsPrefix(s, t) == Len(s) <= Len(t) /\ SubSeq(t, 1, Len(s)) = s
NoDuplicates(seq) == \A i, j \in 1..Len(seq) : seq[i] = seq[j] => i = j

\* the steps are called one at a time, each after the one before it resolved
OneAtATime ==
    /\ IsPrefix(completed, started)
    /\ Len(started) <= Len(completed) + 1

\* C1: in a run of deploy the steps are called in the order verifyTag,
\* imageUpload, instanceTemplateCreate, updateStart, each only after the one
\* before it has completed, and once verifyTag has rejected no other step
\* is ever called.
C1_DeployOrder ==
    task = "deploy" =>
        /\ IsPrefix(started, <<"verifyTag", "imageUpload",
                               "instanceTemplateCreate", "updateStart">>)
        /\ OneAtATime
        /\ (error # "none" /\ "verifyTag" \notin Range(completed)
                => started = <<"verifyTag">>)

C1_Witness ==
    /\ task = "deploy"
    /\ phase = "done"
    /\ started = <<"verifyTag", "imageUpload", "instanceTemplateCreate",
                   "updateStart">>

\* C2: once verifyTag has settled on a successful registry query, it has
\* raised exactly when the tag list of the image contains config.tag.
C2_RaisesIffListed ==
    (/\ started = <<"verifyTag">>
     /\ phase \in {"ready", "done", "failed"}
     /\ \A i \in CmdsOf("verifyTag") : cmds[i].st = "exit0")
        => (phase = "failed" <=> config.tag \in Range(registry[config.image.name]))

\* the promise of the step a composite is at can settle
Settle == verifyTagResume \/ updateStartResume \/ packagerUpdateStartResume \/ ShSettled

\* C3: in deploy and packagerDeploy, once a command has exited non-zero
\* the step that spawned it is the last step called, the composite can only
\* fail (its rejection is pending or has happened), and no step is called
\* twice.
C3_FailureAborts ==
    task \in {"deploy", "packagerDeploy"} =>
        /\ NoDuplicates(started)
        /\ \A i \in 1..Len(cmds) :
                cmds[i].st = "exit1" =>
                    /\ started[Len(started)] = cmds[i].step
                    /\ phase \in {"awaiting", "failed"}
                    /\ phase = "awaiting" => ENABLED Settle

C3_Witness ==
    /\ task = "deploy"
    /\ phase = "failed"
    /\ error = "sh"
    /\ started = <<"verifyTag", "imageUpload">>

\* the step of deploy that a step of packagerDeploy stands for
Analogue(step) ==
    CASE step = "packagerImageUpload" -> "imageUpload"
      [] step = "packagerInstanceTemplateCreate" -> "instanceTemplateCreate"
      [] step = "packagerUpdateStart" -> "updateStart"
      [] OTHER -> step

\* C4 as claimed: packagerDeploy calls the analogues of deploy's four steps
\* in deploy's order, and no packager upload is in flight for a tag that the
\* packager image already has.
C4_SamePipeline ==
    task = "packagerDeploy" =>
        /\ \A k \in 1..Len(started) :
                Analogue(started[k]) =
                    <<"verifyTag", "imageUpload", "instanceTemplateCreate",
                      "updateStart">>[k]
        /\ \A i \in CmdsOf("packagerImageUpload") :
                cmds[i].st = "running" =>
                    config.tag \notin Range(registry[config.packager.image.name])

\* C4 as amended: packagerDeploy calls packagerImageUpload,
\* packagerInstanceTemplateCreate, packagerUpdateStart in this order, each
\* after the one before it has completed, and never queries the tag list.
C4_PackagerOrder ==
    task = "packagerDeploy" =>
        /\ IsPrefix(started, <<"packagerImageUpload",
                               "packagerInstanceTemplateCreate",
                               "packagerUpdateStart">>)
        /\ OneAtATime
        /\ \A i \in 1..Len(cmds) :
                cmds[i].line.kind # "container images list-tags"

\* the whole packager pipeline ran for a tag published before the run (a
\* run of packagerDeploy leaves the tags of the main image as they were)
C4_Witness ==
    /\ task = "packagerDeploy"
    /\ phase = "done"
    /\ Len(started) = 3
    /\ config.tag \in Range(registry[config.image.name])
    /\ config.tag \in Range(registry[config.packager.image.name])

\* the start-update commands a fan-out step has spawned for group g
UpdatesFor(step, g) == {i \in CmdsOf(step) : cmds[i].line.target = g.name}

\* C5: once updateStart has been called there is exactly one start-update
\* command per group of config.instance.groups, no other command of that
\* step, and each command's zone is the zone of the group it names.
C5_OnePerGroup ==
    "updateStart" \in Range(started) =>
        /\ \A k \in 1..Len(config.instance.groups) :
                Cardinality(UpdatesFor("updateStart", config.instance.groups[k])) = 1
        /\ \A i \in CmdsOf("updateStart") :
                /\ cmds[i].line.kind = "rolling-action start-update"
                /\ \E k \in 1..Len(config.instance.groups) :
                        /\ cmds[i].line.target = config.instance.groups[k].name
                        /\ cmds[i].line.zone = config.instance.groups[k].zone

C5_Witness ==
    /\ "updateStart" \in Range(started)
    /\ Cardinality(CmdsOf("updateStart")) = 2
    /\ \A i \in CmdsOf("updateStart") : cmds[i].st = "exit0"

FanOuts == {"updateStart", "packagerUpdateStart"}
GroupsOf(step) ==
    IF step = "updateStart" THEN config.instance.groups
    ELSE config.packager.instance.groups

AllIssued(step) ==
    \A k \in 1..Len(GroupsOf(step)) : UpdatesFor(step, GroupsOf(step)[k]) # {}
AllEnded(step) ==
    \A i \in CmdsOf(step) : cmds[i].st \in {"exit0", "exit1"}

\* C6: in both fan-outs, whatever the commands' outcomes and their order,
\* a command is issued for every configured group as the step is called, a
\* command in flight changes only by its own exit, and every issued command
\* comes to its own end, also after the failure of another.
C6_Independent ==
    /\ [](\A s \in FanOuts : s \in Range(started) => AllIssued(s))
    /\ [][\A i \in 1..Len(cmds) :
            /\ i <= Len(cmds')
            /\ cmds'[i].line = cmds[i].line
            /\ cmds[i].st # "running" => cmds'[i] = cmds[i]]_vars
    /\ \A s \in FanOuts : (s \in Range(started)) ~> (AllIssued(s) /\ AllEnded(s))

\* one group's command has failed and rejected the step while the other
\* group's command is still in flight
C6_Witness ==
    /\ phase = "failed"
    /\ \E i, j \in CmdsOf("updateStart") :
            cmds[i].st = "exit1" /\ cmds[j].st = "running"

ModeBlocks == {"inline-block", "top-frame-block", "side-frame-block"}
BlockOf(mode) ==
    CASE mode = "inline" -> "inline-block"
      [] mode = "top-frame" -> "top-frame-block"
      [] mode = "side-frame" -> "side-frame-block"
      [] OTHER -> "no-block"
Count(seq, x) == Cardinality({i \in 1..Len(seq) : seq[i] = x})

\* C7: the rendered fragment for mode none has neither the container's
\* opening nor its closing element nor any mode block; for each other mode
\* it has the container, the block of that mode once, and no other mode's
\* block.
C7_ModeBlocks ==
    rendered =>
        IF preview.mode = "none"
          THEN Range(html) \cap
                 (ModeBlocks \cup {"<div class=ap-o-code-preview>", "</div>"}) = {}
          ELSE /\ Count(html, "<div class=ap-o-code-preview>") = 1
               /\ Count(html, "</div>") = 1
               /\ html[1] = "<div class=ap-o-code-preview>"
               /\ Count(html, BlockOf(preview.mode)) = 1
               /\ Range(html) \cap ModeBlocks = {BlockOf(preview.mode)}

C7_Witness ==
    /\ rendered
    /\ preview.mode = "side-frame"
    /\ "side-frame-block" \in Range(html)

\* gcr.io/<project-id>/<prefix>:<tag>, from the commandline as given
ProjectGiven == IF Truthy(argv.project) THEN argv.project.value ELSE DefaultProject
Reference(tag) == Concat(<<RegistryHost, ProjectGiven, <<"/">>, PREFIX, <<":">>, tag>>)

\* the image references the upload and template commands of the run carry
ReferencesPassed ==
    {cmds[i].line.image : i \in CmdsOf("imageUpload") \cup CmdsOf("instanceTemplateCreate")}

C9_StopsConfiguredGroup ==
    \A i \in CmdsOf("updateStop") :
        \E k \in 1..Len(config.instance.groups) :
            cmds[i].line.target = config.instance.groups[k].name

\* C10: after rendering and any taps on the visible orientation button and
\* the reload button, the iframe container of a top-frame widget has exactly
\* one of the landscape and portrait classes, the landscape one exactly
\* when orientation<index> is true.
C10_ClassFollowsState ==
    rendered /\ preview.mode = "top-frame" =>
        /\ (Landscape \in dom.iframeContainer) # (Portrait \in dom.iframeContainer)
        /\ (Landscape \in dom.iframeContainer)
                <=> ampState.orientation[OrientationKey(preview)]

\* the orientation was turned away from the rendered one, and a reload tapped
C10_Witness ==
    /\ rendered
    /\ preview.mode = "top-frame"
    /\ ampState.orientation[OrientationKey(preview)] # is_landscape(preview)
    /\ dom.src.query # 0

====
